---- MODULE Spec2Model ----
(***************************************************************************)
(* The focus interaction helper of @ember/test-helpers (dom/focus.ts):     *)
(* the promise chain  start hooks -> validate + __focus__ -> settled() ->  *)
(* end hooks, over a small document (activeElement, window focus), a hook  *)
(* registry and the pending-work counters the settledness check reads.     *)
(***************************************************************************)
EXTENDS Integers, Sequences, FiniteSets, TLC

(* ------------------------------ bounds -------------------------------- *)

\* Callbacks 1..MaxHooks can be registered as 'focus' hooks.
MaxHooks == 3

\* A new focus call starts only while fewer than MaxPending operations pend.
MaxPending == 1

(* ----------------------------- the document --------------------------- *)

NoTarget == "null"
NoElement == "none"

\* "a" and "b" are inputs, "body" is the document body.
Elements == {"body", "a", "b"}

Selectors == {"#a", "#missing"}

Targets == {NoTarget} \cup Selectors \cup Elements

\* -is-focusable: an allow-list of elements; the body is not on it.
isFocusable(element) == element \in {"a", "b"}

\* -get-element: an element is itself, a selector is looked up.
getElement(t) ==
  IF t \in Elements THEN t
  ELSE IF t = "#a" THEN "a"
  ELSE NoElement

\* The DOM event handlers of the page that start asynchronous work
\* (focusIn on one input, focusOut on the other).
startsWork(element, type) ==
  <<element, type>> \in {<<"a", "focusin">>, <<"b", "blur">>}

(* ------------------------------ the trace ----------------------------- *)

\* One recorded step: a hook invocation, a lookup, a DOM call or event,
\* or the settled() barrier.
Entry(op, el, rel, id, syn, bub) ==
  [op |-> op, el |-> el, rel |-> rel, id |-> id, syn |-> syn, bub |-> bub]

HookEntry(phase, h) ==
  Entry(IF phase = "start" THEN "hookStart" ELSE "hookEnd",
        NoElement, NoElement, h, FALSE, FALSE)

CallEntry(op, el) == Entry(op, el, NoElement, 0, FALSE, FALSE)

\* fire-event: a synthetic event dispatched by the helpers.
fireEvent(element, type, bubbles, relatedTarget) ==
  Entry(type, element, relatedTarget, 0, TRUE, bubbles)

\* An event the browser itself dispatches.
nativeEvent(element, type, bubbles, relatedTarget) ==
  Entry(type, element, relatedTarget, 0, FALSE, bubbles)

(* ------------------------------- errors -------------------------------- *)

Err(kind, arg, h) == [kind |-> kind, arg |-> arg, hook |-> h]

NoError == Err("none", "", 0)
MissingTargetError == Err("Must pass an element or selector to focus.", "", 0)
NotFocusableError(element) == Err("is not focusable", element, 0)
HookError(h) == Err("hook threw", "", h)

(* ------------------------------- hooks --------------------------------- *)

\* The callback registered when focus.ts is loaded (it logs the target).
LogHook == 0

Hooks == 1..MaxHooks

\* What a callback does when invoked: returns, starts asynchronous work it
\* does not await, or throws.
HookKind(h) ==
  IF h = LogHook THEN "ok"
  ELSE IF h % 3 = 1 THEN "ok"
  ELSE IF h % 3 = 2 THEN "async"
  ELSE "throws"

VARIABLES
  startHooks,     \* registry ('focus', 'start'), in registration order
  endHooks,       \* registry ('focus', 'end'), in registration order
  activeElement,  \* document.activeElement
  hasFocus,       \* document.hasFocus()
  pending,        \* pending-work counters, by what started the work
  pc,             \* stage of the focus call in flight
  target,         \* argument of the focus call
  promise,        \* state of the promise focus returned
  error,          \* rejection reason of that promise
  thrown,         \* exception thrown synchronously out of focus(...)
  log,            \* steps of the call, in order
  activeBefore,   \* document.activeElement when focus was called
  unregistered,   \* callbacks whose registration has been unregistered
  context,        \* the test context getContext() returns
  cachedOnerror,  \* setup-onerror.ts cachedOnerror: context -> saved handler
  onerror,        \* Ember.onerror
  original,       \* Ember.onerror as _prepareOnerror found it, by context
  last            \* the last setup-onerror call and the state it started in

vars == <<startHooks, endHooks, activeElement, hasFocus, pending, pc, target,
          promise, error, thrown, log, activeBefore, unregistered, context,
          cachedOnerror, onerror, original, last>>

focusVars == <<startHooks, endHooks, activeElement, hasFocus, pending, pc,
               target, promise, error, thrown, log, activeBefore, unregistered>>
onerrorVars == <<cachedOnerror, onerror, original, last>>
lifecycle == <<context, cachedOnerror, onerror, original, last>>

registry == <<startHooks, endHooks>>
document == <<activeElement, hasFocus>>
call == <<pc, target, promise, error, thrown, log, activeBefore>>

Range(s) == {s[i] : i \in 1..Len(s)}

PendingTotal == pending.handler + pending.hook

\* settled.ts isSettled(): nothing is pending.
isSettled == PendingTotal = 0

\* helper-hooks runHooks: every registered callback in registration order,
\* one after the other, stopping at the first that throws.
RECURSIVE runHooks(_, _, _)
runHooks(hooks, phase, st) ==
  IF hooks = <<>> \/ st.err # NoError THEN st
  ELSE LET h == Head(hooks)
           invoked == [st EXCEPT !.log = Append(@, HookEntry(phase, h))]
           after ==
             IF HookKind(h) = "throws" THEN [invoked EXCEPT !.err = HookError(h)]
             ELSE IF HookKind(h) = "async"
               THEN [invoked EXCEPT !.pending.hook = @ + 1]
             ELSE invoked
       IN runHooks(Tail(hooks), phase, after)

\* blur.ts __blur__: a blur event on the element, carrying relatedTarget.
__blur__(element, relatedTarget) ==
  <<fireEvent(element, "blur", FALSE, relatedTarget)>>

\* element.focus(): element becomes document.activeElement; a focused
\* browser also fires the blur of the element losing focus and the focus
\* and focusin events itself.
elementFocus(element, active, focused) ==
  <<CallEntry("element.focus", element)>>
  \o (IF focused
        THEN (IF active # element /\ isFocusable(active)
                THEN <<nativeEvent(active, "blur", FALSE, element)>>
                ELSE <<>>)
             \o <<nativeEvent(element, "focus", FALSE, NoElement),
                  nativeEvent(element, "focusin", TRUE, NoElement)>>
        ELSE <<>>)

\* The element that has focus, when it is another, focusable element.
previousFocused(element, active) ==
  IF active # NoElement /\ active # element /\ isFocusable(active)
    THEN active ELSE NoElement

compensatingBlur_Always(element, previousFocusedElement, browserIsNotFocused) ==
  IF previousFocusedElement # NoElement
    THEN __blur__(previousFocusedElement, element) ELSE <<>>

\* The blur fired by hand when the browser is not in focus and there was a
\* previously focused element.
compensatingBlur(element, previousFocusedElement, browserIsNotFocused) ==
  IF previousFocusedElement # NoElement /\ browserIsNotFocused
    THEN __blur__(previousFocusedElement, element) ELSE <<>>

simulatedFocusEvents_FocusinFirst(element, browserIsNotFocused) ==
  IF browserIsNotFocused
    THEN <<fireEvent(element, "focusin", TRUE, NoElement),
           fireEvent(element, "focus", FALSE, NoElement)>>
    ELSE <<>>

\* The focus and focusin events fired by hand when the browser is not in
\* focus, where element.focus() fired none.
simulatedFocusEvents(element, browserIsNotFocused) ==
  IF browserIsNotFocused
    THEN <<fireEvent(element, "focus", FALSE, NoElement),
           fireEvent(element, "focusin", TRUE, NoElement)>>
    ELSE <<>>

__focus___NoEarlyReturn(element, active, focused) ==
  LET previousFocusedElement == previousFocused(element, active)
      browserIsNotFocused == ~focused
  IN [active |-> element,
      steps |->
        (IF ~isFocusable(element) /\ previousFocusedElement # NoElement
           THEN __blur__(previousFocusedElement, NoElement)
           ELSE compensatingBlur(element, previousFocusedElement,
                                 browserIsNotFocused))
        \o elementFocus(element, active, focused)
        \o simulatedFocusEvents(element, browserIsNotFocused)]

\* __focus__(element): the new activeElement and the calls and events, in
\* order.
__focus__(element, active, focused) ==
  LET previousFocusedElement == previousFocused(element, active)
      browserIsNotFocused == ~focused
  IN IF ~isFocusable(element)
       THEN [active |-> active,
             steps |-> IF previousFocusedElement # NoElement
                         THEN __blur__(previousFocusedElement, NoElement)
                         ELSE <<>>]
       ELSE [active |-> element,
             steps |->
               compensatingBlur(element, previousFocusedElement,
                                browserIsNotFocused)
               \o elementFocus(element, active, focused)
               \o simulatedFocusEvents(element, browserIsNotFocused)]

targetMissing_Never(t) == FALSE

\* !target
targetMissing(t) == t = NoTarget

NotFoundError_Element(t) == Err("Element not found when calling focus", getElement(t), 0)

\* Element not found when calling `focus('${target}')`.
NotFoundError(t) == Err("Element not found when calling focus", t, 0)

focusAction_FocusFirst(t, active, focused) ==
  IF targetMissing(t)
    THEN [err |-> MissingTargetError, steps |-> <<>>, active |-> active]
  ELSE LET element == getElement(t)
           lookup == <<CallEntry("getElement", t)>>
       IN IF element = NoElement
            THEN [err |-> NotFoundError(t), steps |-> lookup, active |-> active]
          ELSE LET f == __focus__(element, active, focused)
               IN [err |-> IF isFocusable(element) THEN NoError
                           ELSE NotFocusableError(element),
                   steps |-> lookup \o f.steps, active |-> f.active]

\* The second callback of the chain, up to its return: validate the target
\* and perform the DOM action.  err is what it throws.
focusAction(t, active, focused) ==
  IF targetMissing(t)
    THEN [err |-> MissingTargetError, steps |-> <<>>, active |-> active]
  ELSE LET element == getElement(t)
           lookup == <<CallEntry("getElement", t)>>
       IN IF element = NoElement
            THEN [err |-> NotFoundError(t), steps |-> lookup, active |-> active]
          ELSE IF ~isFocusable(element)
            THEN [err |-> NotFocusableError(element), steps |-> lookup,
                  active |-> active]
          ELSE LET f == __focus__(element, active, focused)
               IN [err |-> NoError, steps |-> lookup \o f.steps,
                   active |-> f.active]

\* The work the handlers of the dispatched events start.
handlerWork(steps) ==
  Cardinality({i \in 1..Len(steps) : startsWork(steps[i].el, steps[i].op)})

(* --------------------------- setup-onerror ----------------------------- *)

NoContext == "no context"

\* Two test contexts.
Contexts == {"A", "B"}

\* Error handler functions; Ember.onerror may also be undefined.
Handlers == {"f1", "f2"}
Undefined == "undefined"

\* cachedOnerror.has(context) is false.
Absent == "absent"

NoContextThrown ==
  Err("Must setup test context before calling setupOnerror", "", 0)
NotCachedThrown ==
  Err("_cacheOriginalOnerror must be called before setupOnerror", "", 0)
PreparedTwiceThrown ==
  Err("_prepareOnerror should only be called once per-context", "", 0)

setupOnerror_NoContextCheck(ctx, cache, current, onError) ==
  IF ctx = NoContext \/ cache[ctx] = Absent
    THEN [threw |-> NotCachedThrown, onerror |-> current]
  ELSE [threw |-> NoError,
        onerror |-> IF onError \notin Handlers THEN cache[ctx] ELSE onError]

setupOnerror_CacheCheckOnReset(ctx, cache, current, onError) ==
  IF ctx = NoContext
    THEN [threw |-> NoContextThrown, onerror |-> current]
  ELSE IF onError \in Handlers
    THEN [threw |-> NoError, onerror |-> onError]
  ELSE IF cache[ctx] = Absent
    THEN [threw |-> NotCachedThrown, onerror |-> current]
  ELSE [threw |-> NoError, onerror |-> cache[ctx]]

setupOnerror_NoCacheCheck(ctx, cache, current, onError) ==
  IF ctx = NoContext
    THEN [threw |-> NoContextThrown, onerror |-> current]
  ELSE [threw |-> NoError,
        onerror |-> IF onError \in Handlers THEN onError
                    ELSE IF cache[ctx] = Absent THEN Undefined
                    ELSE cache[ctx]]

setupOnerror_ResetToUndefined(ctx, cache, current, onError) ==
  IF ctx = NoContext
    THEN [threw |-> NoContextThrown, onerror |-> current]
  ELSE IF cache[ctx] = Absent
    THEN [threw |-> NotCachedThrown, onerror |-> current]
  ELSE [threw |-> NoError,
        onerror |-> IF onError \notin Handlers THEN Undefined ELSE onError]

\* setupOnerror(onError), with ctx the context getContext() returns: what it
\* throws and the value of Ember.onerror it leaves.
setupOnerror(ctx, cache, current, onError) ==
  IF ctx = NoContext
    THEN [threw |-> NoContextThrown, onerror |-> current]
  ELSE IF cache[ctx] = Absent
    THEN [threw |-> NotCachedThrown, onerror |-> current]
  ELSE [threw |-> NoError,
        onerror |-> IF onError \notin Handlers THEN cache[ctx] ELSE onError]

\* resetOnerror is setupOnerror, called without an argument.
resetOnerror(ctx, cache, current) == setupOnerror(ctx, cache, current, Undefined)

prepareOnerror_Overwrites(c, cache, current) ==
  [threw |-> IF cache[c] # Absent THEN PreparedTwiceThrown ELSE NoError,
   cache |-> [cache EXCEPT ![c] = current]]

\* _prepareOnerror(context): what it throws and the cache it leaves.
prepareOnerror(c, cache, current) ==
  IF cache[c] # Absent
    THEN [threw |-> PreparedTwiceThrown, cache |-> cache]
  ELSE [threw |-> NoError, cache |-> [cache EXCEPT ![c] = current]]

cleanupOnerror_DeleteAnyway(c, ctx, cache, current) ==
  LET r == resetOnerror(ctx, cache, current)
  IN [threw |-> r.threw, onerror |-> r.onerror,
      cache |-> [cache EXCEPT ![c] = Absent]]

\* _cleanupOnerror(context): resetOnerror(), then cachedOnerror.delete.
cleanupOnerror(c, ctx, cache, current) ==
  LET r == resetOnerror(ctx, cache, current)
  IN IF r.threw # NoError
       THEN [threw |-> r.threw, onerror |-> current, cache |-> cache]
     ELSE [threw |-> NoError, onerror |-> r.onerror,
           cache |-> [cache EXCEPT ![c] = Absent]]

\* The record kept of one setup-onerror call: its arguments, the context
\* that was current, Ember.onerror and the cache as the call found them, and
\* what it threw.
Called(op, c, fn, threw) ==
  [op |-> op, ctx |-> c, fn |-> fn, threw |-> threw, context |-> context,
   onerror |-> onerror, cache |-> cachedOnerror]

(* ------------------------------- actions ------------------------------- *)

\* focus.ts is loaded: its log hook is registered and no call was made.
InitFocus ==
  /\ startHooks = <<LogHook>>
  /\ endHooks = <<>>
  /\ activeElement \in {NoElement, "body"}
  /\ hasFocus \in BOOLEAN
  /\ pending = [handler |-> 0, hook |-> 0]
  /\ pc = "idle"
  /\ target = NoTarget
  /\ promise = "none"
  /\ error = NoError
  /\ thrown = NoError
  /\ log = <<>>
  /\ activeBefore = activeElement
  /\ unregistered = {}

\* setup-onerror.ts is loaded: the cache is a new Map, no context is set.
InitLifecycle ==
  /\ context = NoContext
  /\ cachedOnerror = [c \in Contexts |-> Absent]
  /\ original = [c \in Contexts |-> Absent]
  /\ last = [op |-> "none", ctx |-> NoContext, fn |-> Undefined,
             threw |-> NoError, context |-> NoContext, onerror |-> onerror,
             cache |-> cachedOnerror]

Init ==
  /\ InitFocus
  /\ onerror = Undefined
  /\ InitLifecycle

\* The application may have installed an error handler before the tests.
InitOnerror ==
  /\ InitFocus
  /\ onerror \in Handlers \cup {Undefined}
  /\ InitLifecycle

FocusCall_SyncCheck ==
  /\ pc = "idle"
  /\ PendingTotal < MaxPending
  /\ \E t \in Targets :
       /\ target' = t
       /\ IF targetMissing(t)
            THEN /\ thrown' = MissingTargetError
                 /\ pc' = "done"
                 /\ promise' = "none"
            ELSE /\ thrown' = NoError
                 /\ pc' = "called"
                 /\ promise' = "pending"
  /\ error' = NoError
  /\ log' = <<>>
  /\ activeBefore' = activeElement
  /\ UNCHANGED lifecycle
  /\ UNCHANGED unregistered
  /\ UNCHANGED <<registry, document, pending>>

\* focus(target): builds the chain on Promise.resolve() and returns it.
FocusCall ==
  /\ pc = "idle"
  /\ PendingTotal < MaxPending
  /\ \E t \in Targets : target' = t
  /\ pc' = "called"
  /\ promise' = "pending"
  /\ error' = NoError
  /\ thrown' = NoError
  /\ log' = <<>>
  /\ activeBefore' = activeElement
  /\ UNCHANGED lifecycle
  /\ UNCHANGED unregistered
  /\ UNCHANGED <<registry, document, pending>>

FocusStartHooks_Swallow ==
  /\ pc = "called"
  /\ LET r == runHooks(startHooks, "start",
                       [log |-> log, pending |-> pending, err |-> NoError])
     IN /\ log' = r.log
        /\ pending' = r.pending
        /\ pc' = "action"
        /\ UNCHANGED <<promise, error>>
  /\ UNCHANGED lifecycle
  /\ UNCHANGED unregistered
  /\ UNCHANGED <<registry, document, target, thrown, activeBefore>>

\* .then(() => runHooks('focus', 'start', target))
FocusStartHooks ==
  /\ pc = "called"
  /\ LET r == runHooks(startHooks, "start",
                       [log |-> log, pending |-> pending, err |-> NoError])
     IN /\ log' = r.log
        /\ pending' = r.pending
        /\ IF r.err # NoError
             THEN /\ promise' = "rejected"
                  /\ error' = r.err
                  /\ pc' = "done"
             ELSE /\ pc' = "action"
                  /\ UNCHANGED <<promise, error>>
  /\ UNCHANGED lifecycle
  /\ UNCHANGED unregistered
  /\ UNCHANGED <<registry, document, target, thrown, activeBefore>>

FocusAction_NoReturn ==
  /\ pc = "action"
  /\ LET r == focusAction(target, activeElement, hasFocus)
     IN /\ log' = log \o r.steps
        /\ activeElement' = r.active
        /\ pending' = [pending EXCEPT !.handler = @ + handlerWork(r.steps)]
        /\ IF r.err # NoError
             THEN /\ promise' = "rejected"
                  /\ error' = r.err
                  /\ pc' = "done"
             ELSE /\ pc' = "endHooks"
                  /\ UNCHANGED <<promise, error>>
  /\ UNCHANGED lifecycle
  /\ UNCHANGED unregistered
  /\ UNCHANGED <<registry, hasFocus, target, thrown, activeBefore>>

FocusAction_EndHooksOnFailure ==
  /\ pc = "action"
  /\ LET r == focusAction(target, activeElement, hasFocus)
     IN /\ log' = log \o r.steps
        /\ activeElement' = r.active
        /\ pending' = [pending EXCEPT !.handler = @ + handlerWork(r.steps)]
        /\ pc' = IF r.err # NoError THEN "endHooks" ELSE "settling"
        /\ UNCHANGED <<promise, error>>
  /\ UNCHANGED lifecycle
  /\ UNCHANGED unregistered
  /\ UNCHANGED <<registry, hasFocus, target, thrown, activeBefore>>

\* .then(() => { validate; __focus__(element); return settled(); }): a
\* throw rejects the chain and skips what follows; otherwise the chain waits
\* for the promise of settled().
FocusAction ==
  /\ pc = "action"
  /\ LET r == focusAction(target, activeElement, hasFocus)
     IN /\ log' = log \o r.steps
        /\ activeElement' = r.active
        /\ pending' = [pending EXCEPT !.handler = @ + handlerWork(r.steps)]
        /\ IF r.err # NoError
             THEN /\ promise' = "rejected"
                  /\ error' = r.err
                  /\ pc' = "done"
             ELSE /\ pc' = "settling"
                  /\ UNCHANGED <<promise, error>>
  /\ UNCHANGED lifecycle
  /\ UNCHANGED unregistered
  /\ UNCHANGED <<registry, hasFocus, target, thrown, activeBefore>>

\* settled(): resolves once nothing is pending.
Settled ==
  /\ pc = "settling"
  /\ isSettled
  /\ log' = Append(log, CallEntry("settled", NoElement))
  /\ pc' = "endHooks"
  /\ UNCHANGED lifecycle
  /\ UNCHANGED unregistered
  /\ UNCHANGED <<registry, document, pending, target, promise, error, thrown,
                 activeBefore>>

FocusEndHooks_StartLabel ==
  /\ pc = "endHooks"
  /\ LET r == runHooks(startHooks, "start",
                       [log |-> log, pending |-> pending, err |-> NoError])
     IN /\ log' = r.log
        /\ pending' = r.pending
        /\ promise' = IF r.err # NoError THEN "rejected" ELSE "resolved"
        /\ error' = r.err
        /\ pc' = "done"
  /\ UNCHANGED lifecycle
  /\ UNCHANGED unregistered
  /\ UNCHANGED <<registry, document, target, thrown, activeBefore>>

\* .then(() => runHooks('focus', 'end', target)); the promise focus
\* returned settles with it.
FocusEndHooks ==
  /\ pc = "endHooks"
  /\ LET r == runHooks(endHooks, "end",
                       [log |-> log, pending |-> pending, err |-> NoError])
     IN /\ log' = r.log
        /\ pending' = r.pending
        /\ promise' = IF r.err # NoError THEN "rejected" ELSE "resolved"
        /\ error' = r.err
        /\ pc' = "done"
  /\ UNCHANGED lifecycle
  /\ UNCHANGED unregistered
  /\ UNCHANGED <<registry, document, target, thrown, activeBefore>>

\* One pending operation finishes.
AsyncDone ==
  /\ \E k \in {"handler", "hook"} :
       /\ pending[k] > 0
       /\ pending' = [pending EXCEPT ![k] = @ - 1]
  /\ UNCHANGED lifecycle
  /\ UNCHANGED unregistered
  /\ UNCHANGED <<registry, document, call>>

Registered == Range(startHooks) \cup Range(endHooks)

\* The test body runs between calls, and on after focus(...) has returned
\* until it awaits the promise.
TestBodyRuns == pc \in {"idle", "called"}

\* registerHook('focus', phase, callback)
RegisterHook ==
  /\ TestBodyRuns
  /\ \E h \in Hooks \ Registered :
       /\ \/ /\ startHooks' = Append(startHooks, h)
             /\ UNCHANGED endHooks
          \/ /\ endHooks' = Append(endHooks, h)
             /\ UNCHANGED startHooks
       /\ unregistered' = unregistered \ {h}
  /\ UNCHANGED lifecycle
  /\ UNCHANGED <<document, pending, call>>

Remove_Nothing(s, h) == s

Remove(s, h) == SelectSeq(s, LAMBDA x : x # h)

\* unregister() of a registration made by the test.
Unregister ==
  /\ TestBodyRuns
  /\ \E h \in Registered \ {LogHook} :
       /\ startHooks' = Remove(startHooks, h)
       /\ endHooks' = Remove(endHooks, h)
       /\ unregistered' = unregistered \cup {h}
  /\ UNCHANGED lifecycle
  /\ UNCHANGED <<document, pending, call>>

\* The browser window gains or loses focus between calls.
WindowFocusChange ==
  /\ pc = "idle"
  /\ hasFocus' = ~hasFocus
  /\ UNCHANGED lifecycle
  /\ UNCHANGED unregistered
  /\ UNCHANGED <<registry, activeElement, pending, call>>

\* Another helper (click, tap, ...) calls the exported __focus__(element)
\* directly, on an element it did not check for focusability.
DomFocus ==
  /\ pc = "idle"
  /\ PendingTotal < MaxPending
  /\ \E element \in Elements :
       LET r == __focus__(element, activeElement, hasFocus)
       IN /\ target' = element
          /\ log' = r.steps
          /\ activeElement' = r.active
          /\ pending' = [pending EXCEPT !.handler = @ + handlerWork(r.steps)]
  /\ activeBefore' = activeElement
  /\ UNCHANGED lifecycle
  /\ UNCHANGED unregistered
  /\ UNCHANGED <<registry, hasFocus, pc, promise, error, thrown>>

\* The awaiting test body resumes with the outcome of the call.
Resume ==
  /\ pc = "done"
  /\ pc' = "idle"
  /\ target' = NoTarget
  /\ promise' = "none"
  /\ error' = NoError
  /\ thrown' = NoError
  /\ log' = <<>>
  /\ activeBefore' = activeElement
  /\ UNCHANGED lifecycle
  /\ UNCHANGED unregistered
  /\ UNCHANGED <<registry, document, pending>>

\* setup-context setContext(context), by the test body.
SetContext ==
  /\ pc = "idle"
  /\ \E c \in Contexts \ {context} : context' = c
  /\ UNCHANGED <<focusVars, onerrorVars>>

\* setup-context unsetContext(), by the test body.
UnsetContext ==
  /\ pc = "idle"
  /\ context # NoContext
  /\ context' = NoContext
  /\ UNCHANGED <<focusVars, onerrorVars>>

\* A call setupOnerror(onError), or resetOnerror() when onError is undefined.
SetupOnerror ==
  /\ \E fn \in Handlers \cup {Undefined} :
       LET r == setupOnerror(context, cachedOnerror, onerror, fn)
       IN /\ onerror' = r.onerror
          /\ last' = Called("setupOnerror", context, fn, r.threw)
  /\ UNCHANGED <<focusVars, context, cachedOnerror, original>>

\* A call _prepareOnerror(context).
PrepareOnerror ==
  /\ \E c \in Contexts :
       LET r == prepareOnerror(c, cachedOnerror, onerror)
       IN /\ cachedOnerror' = r.cache
          /\ last' = Called("_prepareOnerror", c, Undefined, r.threw)
          /\ original' = IF cachedOnerror[c] = Absent
                           THEN [original EXCEPT ![c] = onerror]
                           ELSE original
  /\ UNCHANGED <<focusVars, context, onerror>>

\* A call _cleanupOnerror(context).
CleanupOnerror ==
  /\ \E c \in Contexts :
       LET r == cleanupOnerror(c, context, cachedOnerror, onerror)
       IN /\ cachedOnerror' = r.cache
          /\ onerror' = r.onerror
          /\ last' = Called("_cleanupOnerror", c, Undefined, r.threw)
  /\ UNCHANGED <<focusVars, context, original>>

Next ==
  \/ FocusCall
  \/ FocusStartHooks
  \/ FocusAction
  \/ Settled
  \/ FocusEndHooks
  \/ AsyncDone
  \/ RegisterHook
  \/ Unregister
  \/ WindowFocusChange
  \/ Resume
  \/ SetContext
  \/ UnsetContext

Spec == Init /\ [][Next]_vars

\* The promise callbacks of a call are microtasks: each runs once it can.
\* Nothing makes pending work of the application finish.
FairSpec ==
  /\ Spec
  /\ WF_vars(FocusStartHooks)
  /\ WF_vars(FocusAction)
  /\ WF_vars(Settled)
  /\ WF_vars(FocusEndHooks)

NextOnerror ==
  \/ SetContext
  \/ UnsetContext
  \/ SetupOnerror
  \/ PrepareOnerror
  \/ CleanupOnerror

SpecOnerror == InitOnerror /\ [][NextOnerror]_vars

\* A test that uses focus(...) and helpers that call __focus__ themselves.
NextDomFocus ==
  \/ Next
  \/ DomFocus

SpecDomFocus == Init /\ [][NextDomFocus]_vars

(* ----------------------- reading the trace ---------------------------- *)

At(op) == {i \in 1..Len(log) : log[i].op = op}

\* The callbacks invoked in one phase, in the order of their invocation.
Invoked(op) ==
  LET sel == SelectSeq(log, LAMBDA e : e.op = op)
  IN [i \in 1..Len(sel) |-> sel[i].id]

DomOps == {"blur", "element.focus", "focus", "focusin"}

\* The stage of the chain a recorded step belongs to.
Stage(e) ==
  IF e.op = "hookStart" THEN 1
  ELSE IF e.op = "getElement" THEN 2
  ELSE IF e.op \in DomOps THEN 3
  ELSE IF e.op = "settled" THEN 4
  ELSE 5

ValidTarget(t) == getElement(t) # NoElement /\ isFocusable(getElement(t))

Throwing(hooks) == {i \in 1..Len(hooks) : HookKind(hooks[i]) = "throws"}

FirstThrowing(hooks) ==
  hooks[CHOOSE i \in Throwing(hooks) : \A j \in Throwing(hooks) : i <= j]

\* What the promise rejects with when the second callback throws err: a
\* start hook that throws rejects the chain before the callback runs.
RejectsWith(err) ==
  /\ promise = "rejected"
  /\ error = IF Throwing(startHooks) # {}
               THEN HookError(FirstThrowing(startHooks)) ELSE err

Synthetic(op) == {i \in At(op) : log[i].syn}

(* ------------------------------ claims -------------------------------- *)

\* C1: a focus call on a valid focusable target goes through its stages in
\* the strict order start hooks, lookup and DOM action, settled(), end
\* hooks; when the promise has resolved every registered start hook and
\* every registered end hook has been invoked exactly once, the element was
\* focused once and settled() was awaited once; the promise of a call on a
\* valid target rejects only with the error of a hook.
C1_StrictOrder ==
  /\ \A i, j \in 1..Len(log) : i < j => Stage(log[i]) <= Stage(log[j])
  /\ promise = "resolved" =>
       /\ ValidTarget(target)
       /\ Invoked("hookStart") = startHooks
       /\ Invoked("hookEnd") = endHooks
       /\ Cardinality(At("element.focus")) = 1
       /\ \A i \in At("element.focus") : log[i].el = getElement(target)
       /\ Cardinality(At("settled")) = 1
       /\ error = NoError
  /\ (ValidTarget(target) /\ promise = "rejected") => error.kind = "hook threw"

C1_Witness ==
  /\ promise = "resolved"
  /\ Len(startHooks) >= 2
  /\ Len(endHooks) >= 1

\* C2: the promise does not resolve, and no end hook runs, while work that
\* the handlers of the dispatched events started is pending.
C2_WaitsForHandlers ==
  (promise = "resolved" \/ At("hookEnd") # {}) => pending.handler = 0

C2_Witness ==
  /\ promise = "resolved"
  /\ \E i \in 1..Len(log) : startsWork(log[i].el, log[i].op)

\* C3: when the promise focus returned has resolved, isSettled() is true,
\* whatever end hooks are registered.
C3_SettledWhenResolved == promise = "resolved" => isSettled

\* C4: focus with a falsy target rejects with the missing-target error (a
\* throwing start hook rejects it first, with its own error); no element is
\* looked up, no DOM action is performed and settled() is not awaited.
C4_MissingTarget ==
  (pc = "done" /\ target = NoTarget) =>
    /\ RejectsWith(MissingTargetError)
    /\ At("getElement") = {}
    /\ \A op \in DomOps : At(op) = {}
    /\ At("settled") = {}
    /\ activeElement = activeBefore

C4_Witness ==
  /\ pc = "done"
  /\ target = NoTarget
  /\ error = MissingTargetError
  /\ isFocusable(activeBefore)

\* C5: focus with a target that resolves to no element rejects with the
\* not-found error naming the target (a throwing start hook rejects it
\* first), and document.activeElement is left as it was.
C5_NotFound ==
  (pc = "done" /\ target # NoTarget /\ getElement(target) = NoElement) =>
    /\ RejectsWith(Err("Element not found when calling focus", target, 0))
    /\ activeElement = activeBefore

C5_Witness ==
  /\ pc = "done"
  /\ target = "#missing"
  /\ error.arg = "#missing"
  /\ isFocusable(activeBefore)

\* C6: focus with a target that resolves to an element that is not
\* focusable rejects with the not-focusable error (a throwing start hook
\* rejects it first) and leaves the DOM untouched: no blur, no
\* element.focus(), document.activeElement as it was.
C6_NotFocusable ==
  (pc = "done" /\ getElement(target) # NoElement
     /\ ~isFocusable(getElement(target))) =>
    /\ RejectsWith(NotFocusableError(getElement(target)))
    /\ \A op \in DomOps : At(op) = {}
    /\ activeElement = activeBefore

C6_Witness ==
  /\ pc = "done"
  /\ target = "body"
  /\ error = NotFocusableError("body")
  /\ isFocusable(activeBefore)

\* C7: focus never throws synchronously: it returns a pending promise before
\* any hook or DOM action has run, and every failure is the rejection of
\* that promise.
C7_FailuresReject ==
  /\ thrown = NoError
  /\ pc = "called" =>
       /\ promise = "pending"
       /\ log = <<>>
       /\ activeElement = activeBefore
  /\ pc \in {"called", "action", "settling", "endHooks"} => promise = "pending"
  /\ pc = "done" => promise \in {"resolved", "rejected"}
  /\ (error # NoError) <=> (promise = "rejected")
  /\ (pc = "done" /\ ~ValidTarget(target)) => promise = "rejected"

C7_Witness ==
  /\ pc = "done"
  /\ promise = "rejected"
  /\ error = MissingTargetError

\* C8: when __focus__ focuses an element while another, focusable element
\* has focus and the window is not focused, exactly one blur is synthesized,
\* on the element losing focus, with the focused element as relatedTarget,
\* before element.focus() is called; when the window is focused __focus__
\* synthesizes no blur.
C8_BlurCompensation ==
  \A k \in At("element.focus") :
    LET element == log[k].el
    IN /\ (~hasFocus /\ isFocusable(activeBefore) /\ activeBefore # element) =>
            /\ Cardinality(Synthetic("blur")) = 1
            /\ \A i \in Synthetic("blur") :
                 /\ log[i].el = activeBefore
                 /\ log[i].rel = element
                 /\ i < k
       /\ hasFocus => Synthetic("blur") = {}

C8_Witness ==
  /\ ~hasFocus
  /\ At("element.focus") # {}
  /\ \E i \in Synthetic("blur") : log[i].el = "a" /\ log[i].rel = "b"

\* C9: focusing a focusable element triggers focus and then focusin on it,
\* each once; when the window is not focused __focus__ fires them itself
\* right after element.focus(), a focus event that does not bubble and then
\* focusin; when the window is focused __focus__ fires neither.
C9_FocusThenFocusin ==
  \A k \in At("element.focus") :
    /\ Cardinality(At("focus")) = 1
    /\ Cardinality(At("focusin")) = 1
    /\ \A f \in At("focus") : \A g \in At("focusin") :
         /\ log[f].el = log[k].el
         /\ log[g].el = log[k].el
         /\ k < f
         /\ f < g
         /\ ~hasFocus =>
              /\ log[f].syn
              /\ ~log[f].bub
              /\ log[g].syn
              /\ f = k + 1
              /\ g = k + 2
    /\ hasFocus => (Synthetic("focus") = {} /\ Synthetic("focusin") = {})

C9_Witness ==
  /\ ~hasFocus
  /\ At("element.focus") # {}
  /\ Synthetic("focus") # {}
  /\ Synthetic("focusin") # {}

\* C10 as stated: once a call whose start hooks completed is over, whether
\* its action succeeded or threw, all its start hooks and all its end hooks
\* have run.
C10_BothPhasesAlways ==
  (pc = "done" /\ error.kind # "hook threw") =>
    /\ Invoked("hookStart") = startHooks
    /\ Invoked("hookEnd") = endHooks

\* C10 amended: the start hooks run for every call, in registration order
\* up to the first that throws, also when the target is missing, not found
\* or not focusable; the end hooks run only after the action succeeded and
\* settled() resolved: when the action throws no end hook runs.
C10_EndHooksOnSuccessOnly ==
  /\ pc \in {"action", "settling", "endHooks"} => Invoked("hookStart") = startHooks
  /\ pc = "done" =>
       /\ Invoked("hookStart") =
            IF Throwing(startHooks) = {} THEN startHooks
            ELSE SubSeq(startHooks, 1,
                        CHOOSE i \in Throwing(startHooks) :
                          \A j \in Throwing(startHooks) : i <= j)
       /\ ~ValidTarget(target) => At("hookEnd") = {}
  /\ At("hookEnd") # {} => (ValidTarget(target) /\ At("settled") # {})
  /\ (pc = "done" /\ ValidTarget(target) /\ Throwing(startHooks) = {}) =>
       Invoked("hookEnd") =
         IF Throwing(endHooks) = {} THEN endHooks
         ELSE SubSeq(endHooks, 1,
                     CHOOSE i \in Throwing(endHooks) :
                       \A j \in Throwing(endHooks) : i <= j)

C10_Witness ==
  /\ pc = "done"
  /\ error = NotFocusableError("body")
  /\ Len(endHooks) >= 1
  /\ Len(Invoked("hookStart")) >= 2

\* C11: when a 'focus' start hook throws, the promise rejects with that
\* hook's error and no later stage runs: no later start hook, no lookup or
\* validation error, no DOM action, no settled() and no end hook.
C11_StartHookFailure ==
  (pc = "done" /\ Throwing(startHooks) # {}) =>
    /\ promise = "rejected"
    /\ error = HookError(FirstThrowing(startHooks))
    /\ Len(log) > 0
    /\ \A i \in 1..Len(log) : log[i].op = "hookStart"
    /\ log[Len(log)].id = FirstThrowing(startHooks)
    /\ activeElement = activeBefore

C11_Witness ==
  /\ pc = "done"
  /\ Throwing(startHooks) # {}
  /\ ValidTarget(target)
  /\ isFocusable(activeBefore)
  /\ activeBefore # getElement(target)
  /\ Len(endHooks) >= 1
  /\ error.kind = "hook threw"

\* C12: for a prepared current context, resetOnerror() (setupOnerror
\* without a function) sets Ember.onerror to the value it had when
\* _prepareOnerror was called for that context, undefined included,
\* whatever setupOnerror calls came before.
C12_ResetRoundTrip ==
  (last.op = "setupOnerror" /\ last.fn \notin Handlers
     /\ last.context # NoContext /\ last.cache[last.context] # Absent) =>
    /\ last.threw = NoError
    /\ original[last.context] # Absent
    /\ onerror = original[last.context]

C12_Witness ==
  /\ last.op = "setupOnerror"
  /\ last.fn = Undefined
  /\ last.threw = NoError
  /\ last.onerror \in Handlers
  /\ original[last.context] \in Handlers
  /\ onerror # last.onerror

\* C13: with both contexts prepared, _cleanupOnerror(A) restores
\* Ember.onerror to the value saved for A and removes A's entry only,
\* whichever context is current.
C13_CleanupRestoresOwn ==
  (last.op = "_cleanupOnerror" /\ last.context # NoContext
     /\ \A c \in Contexts : last.cache[c] # Absent) =>
    /\ onerror = last.cache[last.ctx]
    /\ cachedOnerror = [last.cache EXCEPT ![last.ctx] = Absent]

\* C14: _cleanupOnerror of the current context restores the handler and
\* removes the cached value; called again for the same, still current
\* context it throws the not-cached error and changes neither Ember.onerror
\* nor the cache.
C14_SecondCleanup ==
  (last.op = "_cleanupOnerror" /\ last.ctx = last.context) =>
    IF last.cache[last.ctx] # Absent
      THEN /\ last.threw = NoError
           /\ onerror = last.cache[last.ctx]
           /\ cachedOnerror = [last.cache EXCEPT ![last.ctx] = Absent]
      ELSE /\ last.threw = NotCachedThrown
           /\ onerror = last.onerror
           /\ cachedOnerror = last.cache

C14_Witness ==
  /\ last.op = "_cleanupOnerror"
  /\ last.ctx = last.context
  /\ last.cache[last.ctx] = Absent
  /\ original[last.ctx] # Absent
  /\ last.threw # NoError
  /\ last.onerror \in Handlers

\* C15: setupOnerror or resetOnerror with no test context set throws 'Must
\* setup test context before calling setupOnerror' and leaves Ember.onerror
\* and the cache as they were.
C15_NoContext ==
  (last.op = "setupOnerror" /\ last.context = NoContext) =>
    /\ last.threw = NoContextThrown
    /\ onerror = last.onerror
    /\ cachedOnerror = last.cache

C15_Witness ==
  /\ last.op = "setupOnerror"
  /\ last.context = NoContext
  /\ last.fn \in Handlers
  /\ last.fn # onerror
  /\ last.threw # NoError
  /\ \E c \in Contexts : cachedOnerror[c] # Absent

\* C16: setupOnerror for a current context that has no cached handler
\* (never prepared, or cleaned up) throws and leaves Ember.onerror as it
\* was, also when a handler function is passed.
C16_NotPrepared ==
  (last.op = "setupOnerror" /\ last.context # NoContext
     /\ last.cache[last.context] = Absent) =>
    /\ last.threw = NotCachedThrown
    /\ onerror = last.onerror
    /\ cachedOnerror = last.cache

C16_Witness ==
  /\ last.op = "setupOnerror"
  /\ last.context # NoContext
  /\ last.cache[last.context] = Absent
  /\ original[last.context] # Absent
  /\ last.fn \in Handlers
  /\ last.fn # onerror
  /\ last.threw # NoError

\* C17: a second _prepareOnerror for a context that still has a cached
\* value throws and does not overwrite that value, also when Ember.onerror
\* has changed since the first call.
C17_PrepareOnce ==
  (last.op = "_prepareOnerror" /\ last.cache[last.ctx] # Absent) =>
    /\ last.threw = PreparedTwiceThrown
    /\ cachedOnerror = last.cache
    /\ onerror = last.onerror

C17_Witness ==
  /\ last.op = "_prepareOnerror"
  /\ last.cache[last.ctx] # Absent
  /\ last.onerror # last.cache[last.ctx]
  /\ last.threw # NoError

\* C18: a callback whose registration was unregistered is invoked by no
\* later call, and the callbacks still registered for the phase are invoked
\* in registration order.
C18_UnregisteredNotInvoked ==
  /\ \A i \in At("hookStart") \cup At("hookEnd") : log[i].id \notin unregistered
  /\ pc \in {"action", "settling", "endHooks"} => Invoked("hookStart") = startHooks
  /\ promise = "resolved" =>
       /\ Invoked("hookStart") = startHooks
       /\ Invoked("hookEnd") = endHooks

C18_Witness ==
  /\ promise = "resolved"
  /\ unregistered # {}
  /\ Len(startHooks) >= 2
  /\ Len(endHooks) >= 1

\* C19: a focus call made while no test context is set rejects and performs
\* no DOM action.
C19_NoContextRejects ==
  (pc = "done" /\ context = NoContext) =>
    /\ promise = "rejected"
    /\ \A op \in DomOps : At(op) = {}

\* C20: focus has no timeout.  After the DOM action and until settled() has
\* resolved the promise is pending and no end hook has run; while the
\* application is not settled the call stays waiting; and once the
\* application is settled, a call whose end hooks complete resolves.
C20_NoTimeout ==
  /\ []((At("element.focus") # {} /\ At("settled") = {}) =>
          (promise = "pending" /\ At("hookEnd") = {}))
  /\ [][(pc = "settling" /\ ~isSettled) =>
          (pc' = "settling" /\ promise' = "pending" /\ log' = log)]_vars
  /\ (pc = "settling" /\ isSettled /\ Throwing(endHooks) = {})
       ~> (promise = "resolved")

C20_Witness ==
  /\ pc = "settling"
  /\ ~isSettled
  /\ promise = "pending"
  /\ Len(endHooks) >= 1

\* A state left by a direct call __focus__(target), as opposed to focus(...).
DirectCall == pc = "idle" /\ target \in Elements

\* The element __focus__ is or would be called on.
CalledOn == IF DirectCall THEN target ELSE getElement(target)

\* C21: __focus__ on an element that is not focusable never calls
\* element.focus() and fires no focus or focusin event; when another,
\* focusable element has focus, that element gets one synthesized blur with
\* relatedTarget null and nothing else happens; when there is none, nothing
\* happens at all.  In every call, by focus(...) or direct, a blur is
\* synthesized only on the element that was document.activeElement, is
\* focusable and is not the element being focused.
C21_NotFocusableTarget ==
  /\ (DirectCall /\ ~isFocusable(target)) =>
       /\ At("element.focus") \cup At("focus") \cup At("focusin") = {}
       /\ IF activeBefore # NoElement /\ isFocusable(activeBefore)
            THEN /\ Len(log) = 1
                 /\ log[1].op = "blur"
                 /\ log[1].syn
                 /\ log[1].el = activeBefore
                 /\ log[1].rel = NoElement
            ELSE /\ log = <<>>
                 /\ activeElement = activeBefore
  /\ \A i \in Synthetic("blur") :
       /\ log[i].el = activeBefore
       /\ isFocusable(log[i].el)
       /\ log[i].el # CalledOn

C21_Witness ==
  /\ DirectCall
  /\ target = "body"
  /\ activeBefore = "a"
  /\ Synthetic("blur") # {}

\* resetOnerror() throws in the state the last call found.
ResetThrew ==
  last.context = NoContext \/ last.cache[last.context] = Absent

\* C22: _cleanupOnerror is all-or-nothing.  When its reset step throws (no
\* current context, or no cached value for the current context) the
\* exception propagates, Ember.onerror is unchanged and no cache entry is
\* removed; otherwise the entry of the context passed is removed.  The cache
\* changes only by a _prepareOnerror that adds one entry and by a
\* _cleanupOnerror that did not throw and removes one entry; setupOnerror
\* and resetOnerror never change it.
C22_CleanupAllOrNothing ==
  /\ last.op = "_cleanupOnerror" =>
       IF ResetThrew
         THEN /\ last.threw = IF last.context = NoContext
                                THEN NoContextThrown ELSE NotCachedThrown
              /\ onerror = last.onerror
              /\ cachedOnerror = last.cache
         ELSE /\ last.threw = NoError
              /\ cachedOnerror = [last.cache EXCEPT ![last.ctx] = Absent]
  /\ cachedOnerror # last.cache =>
       /\ last.threw = NoError
       /\ \/ /\ last.op = "_prepareOnerror"
             /\ last.cache[last.ctx] = Absent
             /\ cachedOnerror = [last.cache EXCEPT ![last.ctx] = last.onerror]
          \/ /\ last.op = "_cleanupOnerror"
             /\ last.cache[last.ctx] # Absent
             /\ cachedOnerror = [last.cache EXCEPT ![last.ctx] = Absent]
  /\ last.op = "setupOnerror" => cachedOnerror = last.cache

C22_Witness ==
  /\ last.op = "_cleanupOnerror"
  /\ last.threw = NotCachedThrown
  /\ last.cache[last.ctx] \in Handlers
  /\ cachedOnerror[last.ctx] = last.cache[last.ctx]
  /\ last.onerror \in Handlers \ {last.cache[last.ctx]}
  /\ onerror = last.onerror

====
